---- MODULE Spec2Model ----
(***************************************************************************)
(* Model of notebooks/05-agents-sql/download-nc-statutes.py: the statute   *)
(* parser (StatuteSection, ParserState, parse_statute_html), the title     *)
(* extractors and the chapter loop (parse_chapter, parse_all_chapters).    *)
(*                                                                         *)
(* Python strings are sequences of one-character strings, so that the      *)
(* regular expressions and the str methods are computed character by       *)
(* character.  Python objects that are shared by reference                 *)
(* (StatuteSection) live in a heap and are referred to by their index.     *)
(***************************************************************************)
EXTENDS Integers, Sequences, FiniteSets, TLC

VARIABLES
    pc,             \* control position of the running function
    all_elements,   \* parse_statute_html: all_elements (soup.select result)
    idx,            \* parse_statute_html: number of elements already consumed by the for loop
    state,          \* parse_statute_html: state (the ParserState object and the heap of StatuteSection objects)
    calls,          \* log of the ParserState transition invoked for each consumed element
    result,         \* parse_statute_html: return value (list of dicts)
    full_title,     \* extract_chapter_title / extract_article_title: argument
    keyword,        \* which of the two extractors is applied
    cleaned,        \* extract_chapter_title / extract_article_title: return value
    chapters,       \* parse_all_chapters: chapters (table of contents)
    start_chapter,  \* parse_all_chapters: start_chapter argument
    max_chapters,   \* parse_all_chapters: max_chapters argument
    chapters_to_parse, \* parse_all_chapters: chapters_to_parse
    ci,             \* parse_all_chapters: number of chapters already parsed by the for loop
    all_sections,   \* parse_all_chapters: all_sections
    outcomes,       \* log of the chapters handed to parse_chapter and of what the site answered
    toc_links,      \* the chapter numbers linked from the table of contents page, in page order
    df,             \* parse_all_chapters: the rows of the returned DataFrame
    session,        \* the pages handed to parse_statute_html, one call after the other, by one process
    earlier         \* the return values of the calls of parse_statute_html that are over

vars == <<pc, all_elements, idx, state, calls, result, full_title, keyword, cleaned,
          chapters, start_chapter, max_chapters, chapters_to_parse, ci, all_sections, outcomes,
          toc_links, df, session, earlier>>

parseVars == <<all_elements, idx, state, calls, result>>
titleVars == <<full_title, keyword, cleaned>>
corpusVars == <<chapters, start_chapter, max_chapters, chapters_to_parse, ci, all_sections, outcomes,
                toc_links, df>>
sessionVars == <<session, earlier>>

\* Python's None, for Optional[str] values; a string is a sequence of
\* one-character strings, so None differs from every string
None == <<"None">>

\* truth value of an Optional[str]: None and "" are false
Truthy(x) == x # None /\ x # <<>>

-----------------------------------------------------------------------------
(* Characters and str methods *)

SP == <<" ">>
DOT == <<".">>
NL == <<"\n">>
SECT == <<"§">>

UpperLetters == <<"A","B","C","D","E","F","G","H","I","J","K","L","M",
                  "N","O","P","Q","R","S","T","U","V","W","X","Y","Z">>
LowerLetters == <<"a","b","c","d","e","f","g","h","i","j","k","l","m",
                  "n","o","p","q","r","s","t","u","v","w","x","y","z">>
DigitChars == {"0","1","2","3","4","5","6","7","8","9"}

Range(f) == {f[x] : x \in DOMAIN f}

IsSpace(c) == c \in {" ", "\n", "\t"}
IsDigit(c) == c \in DigitChars
IsUpper(c) == c \in Range(UpperLetters)
IsLower(c) == c \in Range(LowerLetters)
IsLetter(c) == IsUpper(c) \/ IsLower(c)
IsDot(c) == c = "."
\* \w
IsWord(c) == IsLetter(c) \/ IsDigit(c) \/ c = "_"
\* [\w\.-]
IsIdChar(c) == IsWord(c) \/ c = "." \/ c = "-"

\* str.lower on one character
LowerChar(c) ==
    IF IsUpper(c)
    THEN LowerLetters[CHOOSE k \in DOMAIN UpperLetters : UpperLetters[k] = c]
    ELSE c

lower(s) == [k \in DOMAIN s |-> LowerChar(s[k])]

\* number of consecutive characters of s, from position from on, that satisfy P
RunLen(s, from, P(_)) ==
    CHOOSE n \in 0..(IF from > Len(s) THEN 0 ELSE Len(s) - from + 1) :
        /\ \A j \in 0..(n - 1) : P(s[from + j])
        /\ (from + n > Len(s) \/ ~P(s[from + n]))

\* number of consecutive characters at the end of s that satisfy P
RunLenBack(s, P(_)) ==
    CHOOSE n \in 0..Len(s) :
        /\ \A j \in 0..(n - 1) : P(s[Len(s) - j])
        /\ (n = Len(s) \/ ~P(s[Len(s) - n]))

startswith(s, p) == Len(s) >= Len(p) /\ SubSeq(s, 1, Len(p)) = p
endswith(s, p) == Len(s) >= Len(p) /\ SubSeq(s, Len(s) - Len(p) + 1, Len(s)) = p

\* variant of rstrip_dot: at most one period is removed
rstrip_one_dot(s) == IF Len(s) > 0 /\ s[Len(s)] = "." THEN SubSeq(s, 1, Len(s) - 1) ELSE s

\* s.rstrip(".")
rstrip_dot(s) == SubSeq(s, 1, Len(s) - RunLenBack(s, IsDot))

\* s.strip()
strip(s) ==
    LET a == RunLen(s, 1, IsSpace)
        t == SubSeq(s, a + 1, Len(s))
    IN  SubSeq(t, 1, Len(t) - RunLenBack(t, IsSpace))

-----------------------------------------------------------------------------
(* Regular expressions *)

W_Article == <<"A","r","t","i","c","l","e">>
W_Chapter == <<"C","h","a","p","t","e","r">>
W_through == <<"t","h","r","o","u","g","h">>

\* ARTICLE_PATTERN = r"Article\s+(\d+[A-Z]?)" tried at position p of s:
\* the captured group, or None
ArticleMatchAt(s, p) ==
    LET q == p + Len(W_Article)
        nsp == RunLen(s, q, IsSpace)
        d == q + nsp
        nd == RunLen(s, d, IsDigit)
        e == d + nd
    IN  IF /\ p + Len(W_Article) - 1 <= Len(s)
           /\ SubSeq(s, p, q - 1) = W_Article
           /\ nsp >= 1
           /\ nd >= 1
        THEN IF e <= Len(s) /\ IsUpper(s[e]) THEN SubSeq(s, d, e) ELSE SubSeq(s, d, e - 1)
        ELSE None

\* re.search(ARTICLE_PATTERN, text): group(1) of the leftmost match, or None
article_search(s) ==
    LET hits == {p \in 1..Len(s) : ArticleMatchAt(s, p) # None}
    IN  IF hits = {} THEN None
        ELSE ArticleMatchAt(s, CHOOSE p \in hits : \A r \in hits : p <= r)

\* length of the match of r"^<kw>\s+\d+[A-Z]?\.\s*" with re.IGNORECASE at the
\* start of s, 0 when the pattern does not match
PrefixMatchLen(kw, s) ==
    LET q == Len(kw) + 1
        nsp == RunLen(s, q, IsSpace)
        d == q + nsp
        nd == RunLen(s, d, IsDigit)
        e == d + nd
        \* [A-Z]? under IGNORECASE takes a letter of either case when a period follows it
        dotAt == IF e + 1 <= Len(s) /\ IsLetter(s[e]) /\ s[e + 1] = "." THEN e + 1
                 ELSE IF e <= Len(s) /\ s[e] = "." THEN e
                 ELSE 0
    IN  IF /\ Len(s) >= Len(kw)
           /\ lower(SubSeq(s, 1, Len(kw))) = lower(kw)
           /\ nsp >= 1
           /\ nd >= 1
           /\ dotAt > 0
        THEN dotAt + RunLen(s, dotAt + 1, IsSpace)
        ELSE 0

\* re.sub(r"^<kw>\s+\d+[A-Z]?\.\s*", "", full_title, flags=re.IGNORECASE)
sub_prefix(kw, s) == SubSeq(s, PrefixMatchLen(kw, s) + 1, Len(s))

extract_chapter_title(s) == strip(rstrip_dot(sub_prefix(W_Chapter, s)))

extract_article_title(s) == strip(rstrip_dot(sub_prefix(W_Article, s)))

\* SECTION_PATTERN = r"§§?\s*([\w\.-]+(?:\s*through\s*[\w\.-]+)?)[:\.]"
\* the terminator [:\.] stands at position p of s
IsTerminatorAt(s, p) == p <= Len(s) /\ s[p] \in {":", "."}

\* (?:\s*through\s*[\w\.-]+)? followed by [:\.], tried at position t0 of s:
\* the position of the last character of the group, 0 when it does not match
ThroughEnd(s, t0) ==
    LET t1 == t0 + RunLen(s, t0, IsSpace)
        u == t1 + Len(W_through)
        b == u + RunLen(s, u, IsSpace)
        runB == RunLen(s, b, IsIdChar)
        ms == {m \in 1..runB : IsTerminatorAt(s, b + m)}
    IN  IF /\ u - 1 <= Len(s)
           /\ SubSeq(s, t1, u - 1) = W_through
           /\ ms # {}
        THEN b + (CHOOSE m \in ms : \A r \in ms : m >= r) - 1
        ELSE 0

\* SECTION_PATTERN tried at position p of s: the captured group, or None.
\* The greedy quantifiers give up characters from the right until the
\* terminator matches.
SectionMatchAt(s, p) ==
    LET a0 == IF p + 1 <= Len(s) /\ s[p + 1] = SECT[1] THEN p + 2 ELSE p + 1
        a == a0 + RunLen(s, a0, IsSpace)
        runA == RunLen(s, a, IsIdChar)
        ns == {n \in 1..runA : ThroughEnd(s, a + n) > 0 \/ IsTerminatorAt(s, a + n)}
        n == CHOOSE m \in ns : \A r \in ns : m >= r
    IN  IF s[p] = SECT[1] /\ ns # {}
        THEN IF ThroughEnd(s, a + n) > 0
             THEN SubSeq(s, a, ThroughEnd(s, a + n))
             ELSE SubSeq(s, a, a + n - 1)
        ELSE None

\* re.search(SECTION_PATTERN, text): group(1) of the leftmost match, or None
section_search(s) ==
    LET hits == {p \in 1..Len(s) : SectionMatchAt(s, p) # None}
    IN  IF hits = {} THEN None
        ELSE SectionMatchAt(s, CHOOSE p \in hits : \A r \in hits : p <= r)

-----------------------------------------------------------------------------
(* CSS classes *)

CSS_chapter_title == "cs2E44D3A6"
CSS_article_title == "cs2E44D3A6"
CSS_section_title == "cs8E357F70"
CSS_section_text == <<"cs4817DA29", "cs10EB6B29">>

-----------------------------------------------------------------------------
(* StatuteSection *)

StatuteSection(chapter, article, article_number, section_number, text) ==
    [chapter |-> chapter, article |-> article, article_number |-> article_number,
     section_number |-> section_number, text |-> text]

\* variant of add_text: fragments joined by a space
add_text_space(self, new_text) ==
    IF self.text # <<>>
    THEN [self EXCEPT !.text = @ \o SP \o new_text]
    ELSE [self EXCEPT !.text = new_text]

add_text(self, new_text) ==
    IF self.text # <<>>
    THEN [self EXCEPT !.text = @ \o NL \o new_text]
    ELSE [self EXCEPT !.text = new_text]

to_dict(self) ==
    [chapter |-> self.chapter, article_number |-> self.article_number,
     article |-> self.article, section_number |-> self.section_number,
     text |-> self.text]

-----------------------------------------------------------------------------
(* ParserState.  current_section and the entries of records are references  *)
(* into heap (0 is None), as the Python objects are shared, not copied.     *)

ParserState(chapter_title) ==
    [chapter_title |-> chapter_title,
     current_article |-> <<>>,
     current_article_number |-> None,
     current_section |-> 0,
     pending_article_number |-> None,
     records |-> <<>>,
     heap |-> <<>>]

is_article_number(text) ==
    startswith(text, W_Article \o SP) /\ endswith(text, DOT) /\ article_search(text) # None

is_section_title(classes) == CSS_section_title \in classes

is_section_text(classes) == \E k \in DOMAIN CSS_section_text : CSS_section_text[k] \in classes

is_article_title_part(classes, text) ==
    /\ CSS_article_title \in classes
    /\ ~startswith(text, W_Article \o SP)
    /\ ~startswith(text, SECT)

is_standalone_article(classes, text) ==
    /\ CSS_article_title \in classes
    /\ startswith(text, W_Article \o SP)
    /\ ~endswith(text, DOT)

\* variant of save_current_section: the section is put in front of the records
save_current_section_front(self) ==
    IF self.current_section # 0 /\ self.heap[self.current_section].text # <<>>
    THEN [self EXCEPT !.records = <<self.current_section>> \o @]
    ELSE self

save_current_section(self) ==
    IF self.current_section # 0 /\ self.heap[self.current_section].text # <<>>
    THEN [self EXCEPT !.records = Append(@, self.current_section)]
    ELSE self

process_article_number(self, text) ==
    [self EXCEPT !.pending_article_number = text,
                 !.current_article_number = article_search(text)]

process_article_title_part(self, text) ==
    IF Truthy(self.pending_article_number)
    THEN [self EXCEPT !.current_article =
                          extract_article_title(strip(self.pending_article_number \o SP \o text)),
                      !.pending_article_number = None]
    ELSE self

\* variant of process_standalone_article: the open section follows the new article
process_standalone_article_retag(self, text) ==
    LET upd == [self EXCEPT !.current_article = extract_article_title(text),
                            !.current_article_number = article_search(text),
                            !.pending_article_number = None]
    IN  IF self.current_section # 0
        THEN [upd EXCEPT !.heap[self.current_section].article = upd.current_article,
                         !.heap[self.current_section].article_number = upd.current_article_number]
        ELSE upd

\* variant of process_standalone_article: the pending number line is kept
process_standalone_article_keep(self, text) ==
    [self EXCEPT !.current_article = extract_article_title(text),
                 !.current_article_number = article_search(text)]

process_standalone_article(self, text) ==
    [self EXCEPT !.current_article = extract_article_title(text),
                 !.current_article_number = article_search(text),
                 !.pending_article_number = None]

\* variant of start_new_section: the section starts with no text
start_new_section_empty(self, text) ==
    LET saved == save_current_section(self)
    IN  [saved EXCEPT !.heap = Append(@, StatuteSection(saved.chapter_title,
                                                         saved.current_article,
                                                         saved.current_article_number,
                                                         section_search(text),
                                                         <<>>)),
                      !.current_section = Len(saved.heap) + 1]

\* variant of start_new_section: the pending number line is taken as the article number
start_new_section_pending(self, text) ==
    LET saved == save_current_section(self)
    IN  [saved EXCEPT !.heap = Append(@, StatuteSection(saved.chapter_title,
                                                         saved.current_article,
                                                         saved.pending_article_number,
                                                         section_search(text),
                                                         text)),
                      !.current_section = Len(saved.heap) + 1]

\* variant of start_new_section: nothing is done when the citation is missing
start_new_section_strict(self, text) ==
    LET saved == save_current_section(self)
    IN  IF section_search(text) = None THEN self
        ELSE [saved EXCEPT !.heap = Append(@, StatuteSection(saved.chapter_title,
                                                              saved.current_article,
                                                              saved.current_article_number,
                                                              section_search(text),
                                                              text)),
                           !.current_section = Len(saved.heap) + 1]

\* variant of start_new_section: chapter and article arguments swapped
start_new_section_swapped(self, text) ==
    LET saved == save_current_section(self)
    IN  [saved EXCEPT !.heap = Append(@, StatuteSection(saved.current_article,
                                                         saved.chapter_title,
                                                         saved.current_article_number,
                                                         section_search(text),
                                                         text)),
                      !.current_section = Len(saved.heap) + 1]

\* variant of start_new_section: an open section is saved and then takes the
\* new title line as more text, instead of being replaced by a new section
start_new_section_append(self, text) ==
    LET saved == save_current_section(self)
    IN  IF saved.current_section # 0
        THEN [saved EXCEPT !.heap[saved.current_section] = add_text(@, text)]
        ELSE [saved EXCEPT !.heap = Append(@, StatuteSection(saved.chapter_title,
                                                             saved.current_article,
                                                             saved.current_article_number,
                                                             section_search(text),
                                                             text)),
                           !.current_section = Len(saved.heap) + 1]

\* variant of start_new_section: the previous section is dropped, not saved
start_new_section_nosave(self, text) ==
    [self EXCEPT !.heap = Append(@, StatuteSection(self.chapter_title,
                                                   self.current_article,
                                                   self.current_article_number,
                                                   section_search(text),
                                                   text)),
                 !.current_section = Len(self.heap) + 1]

start_new_section(self, text) ==
    LET saved == save_current_section(self)
        section_num == section_search(text)
    IN  [saved EXCEPT !.heap = Append(@, StatuteSection(saved.chapter_title,
                                                         saved.current_article,
                                                         saved.current_article_number,
                                                         section_num,
                                                         text)),
                      !.current_section = Len(saved.heap) + 1]

\* variant of add_section_content: text with no open section opens one
add_section_content_open(self, text) ==
    IF self.current_section # 0
    THEN [self EXCEPT !.heap[self.current_section] = add_text(@, text)]
    ELSE [self EXCEPT !.heap = Append(@, StatuteSection(self.chapter_title,
                                                        self.current_article,
                                                        self.current_article_number,
                                                        None,
                                                        text)),
                      !.current_section = Len(self.heap) + 1]

\* variant of add_section_content: the text goes to the first section created
add_section_content_first(self, text) ==
    IF self.current_section # 0
    THEN [self EXCEPT !.heap[1] = add_text(@, text)]
    ELSE self

add_section_content(self, text) ==
    IF self.current_section # 0
    THEN [self EXCEPT !.heap[self.current_section] = add_text(@, text)]
    ELSE self

get_records_as_dicts(self) ==
    [k \in 1..Len(self.records) |-> to_dict(self.heap[self.records[k]])]

-----------------------------------------------------------------------------
(* parse_statute_html: the dispatch of one element (the if/elif chain) *)

\* which branch of the loop body the element takes in the current state
\* variant of Classify: the chain ends before the standalone article branch
Classify_no_standalone(self, element) ==
    IF element.text = <<>> THEN "continue"
    ELSE IF is_article_number(element.text) THEN "process_article_number"
    ELSE IF Truthy(self.pending_article_number)
            /\ is_article_title_part(element.classes, element.text)
         THEN "process_article_title_part"
    ELSE IF is_section_title(element.classes) THEN "start_new_section"
    ELSE IF is_section_text(element.classes) THEN "add_section_content"
    ELSE "pass"

\* variant of Classify: the title part branch does not ask for a pending number
Classify_any_title_part(self, element) ==
    IF element.text = <<>> THEN "continue"
    ELSE IF is_article_number(element.text) THEN "process_article_number"
    ELSE IF is_article_title_part(element.classes, element.text)
         THEN "process_article_title_part"
    ELSE IF is_section_title(element.classes) THEN "start_new_section"
    ELSE IF is_section_text(element.classes) THEN "add_section_content"
    ELSE IF is_standalone_article(element.classes, element.text)
         THEN "process_standalone_article"
    ELSE "pass"

Classify(self, element) ==
    IF element.text = <<>> THEN "continue"
    ELSE IF is_article_number(element.text) THEN "process_article_number"
    ELSE IF Truthy(self.pending_article_number)
            /\ is_article_title_part(element.classes, element.text)
         THEN "process_article_title_part"
    ELSE IF is_section_title(element.classes) THEN "start_new_section"
    ELSE IF is_section_text(element.classes) THEN "add_section_content"
    ELSE IF is_standalone_article(element.classes, element.text)
         THEN "process_standalone_article"
    ELSE "pass"

Dispatch(self, element) ==
    CASE Classify(self, element) = "process_article_number" ->
             process_article_number(self, element.text)
      [] Classify(self, element) = "process_article_title_part" ->
             process_article_title_part(self, element.text)
      [] Classify(self, element) = "start_new_section" ->
             start_new_section(self, element.text)
      [] Classify(self, element) = "add_section_content" ->
             add_section_content(self, element.text)
      [] Classify(self, element) = "process_standalone_article" ->
             process_standalone_article(self, element.text)
      [] OTHER -> self

RECURSIVE RunLoop(_, _, _)
RunLoop(self, elements, k) ==
    IF k > Len(elements) THEN self
    ELSE \* the state after element k is computed once, then the loop goes on
         CHOOSE last \in {RunLoop(next, elements, k + 1) :
                              next \in {Dispatch(self, elements[k])}} : TRUE

\* parse_statute_html as a function of the page: the text of its h3 chapter
\* title elements joined by a space, and its selected p elements in document order
parse_statute_html(html) ==
    get_records_as_dicts(
        save_current_section(
            RunLoop(ParserState(extract_chapter_title(html.full_chapter_title)),
                    html.all_elements, 1)))

-----------------------------------------------------------------------------
(* Texts and elements of the pages *)

T_Remedies == <<"R","e","m","e","d","i","e","s">>
T_General_Provisions == <<"G","e","n","e","r","a","l"," ","P","r","o","v","i","s","i","o","n","s">>
T_Civil_Procedure == <<"C","i","v","i","l"," ","P","r","o","c","e","d","u","r","e">>
T_Evidence == <<"E","v","i","d","e","n","c","e">>
T_Purpose == <<"P","u","r","p","o","s","e">>
T_Definitions == <<"D","e","f","i","n","i","t","i","o","n","s">>
T_Body == <<"B","o","d","y">>
T_As_used == <<"A","s"," ","u","s","e","d"," ","h","e","r","e","i","n",".",".",".">>
T_Repealed == <<"R","e","p","e","a","l","e","d">>

\* "Article 5."
T_Article_5_dot == W_Article \o SP \o <<"5">> \o DOT
\* "Article 7A."
T_Article_7A_dot == W_Article \o SP \o <<"7", "A">> \o DOT
\* "Article 1."
T_Article_1_dot == W_Article \o SP \o <<"1">> \o DOT
\* "Article 5 Remedies"
T_Article_5_Remedies == W_Article \o SP \o <<"5">> \o SP \o T_Remedies
\* "§ 1-1. Purpose."
T_S_1_1 == SECT \o SP \o <<"1", "-", "1">> \o DOT \o SP \o T_Purpose \o DOT
\* "§ 1-1. Purpose of Chapter:"
T_S_1_1_colon == SECT \o SP \o <<"1", "-", "1">> \o DOT \o SP \o T_Purpose
                 \o SP \o <<"o", "f">> \o SP \o W_Chapter \o <<":">>
\* "§ 1-2. Definitions."
T_S_1_2 == SECT \o SP \o <<"1", "-", "2">> \o DOT \o SP \o T_Definitions \o DOT
\* "§ 1-2: Repealed"
T_S_1_2_colon == SECT \o SP \o <<"1", "-", "2">> \o <<":">> \o SP \o T_Repealed
\* "Chapter 1. Civil Procedure."
T_Chapter_1 == W_Chapter \o SP \o <<"1">> \o DOT \o SP \o T_Civil_Procedure \o DOT
\* "Chapter 8C. Evidence"
T_Chapter_8C == W_Chapter \o SP \o <<"8", "C">> \o DOT \o SP \o T_Evidence

Element(text, classes) == [text |-> text, classes |-> classes]

\* the p elements a page is made of
Elements == {
    Element(T_Article_5_dot, {CSS_article_title}),
    Element(T_Article_7A_dot, {CSS_article_title}),
    Element(T_Remedies, {CSS_article_title}),
    Element(T_Article_5_Remedies, {CSS_article_title}),
    Element(T_S_1_1, {CSS_section_title}),
    Element(T_Definitions, {CSS_section_title}),
    Element(T_Body, {CSS_section_text[1]}),
    Element(<<>>, {CSS_section_text[2]}) }

ChapterHeadings == {T_Chapter_1, T_Chapter_8C}

\* longest page of the general pages
MaxElems == 3

Pages == UNION {[1..n -> Elements] : n \in 0..MaxElems}

\* the pages of the end-to-end scenario: article number line, article title
\* part, then two sections of one title line and one body line each
ScenarioS1 == {T_S_1_1, T_S_1_1_colon}
ScenarioS2 == {T_S_1_2, T_S_1_2_colon}
ScenarioB == {T_Body, T_As_used}

ScenarioPage(s1, b1, s2, b2) ==
    << Element(T_Article_1_dot, {CSS_article_title}),
       Element(T_General_Provisions, {CSS_article_title}),
       Element(s1, {CSS_section_title}),
       Element(b1, {CSS_section_text[1]}),
       Element(s2, {CSS_section_title}),
       Element(b2, {CSS_section_text[2]}) >>

ScenarioPages ==
    {ScenarioPage(s1, b1, s2, b2) : s1 \in ScenarioS1, b1 \in ScenarioB,
                                    s2 \in ScenarioS2, b2 \in ScenarioB}

-----------------------------------------------------------------------------
(* Specification of one run of parse_statute_html *)

TitleIdle == full_title = <<>> /\ keyword = <<>> /\ cleaned = None
CorpusIdle ==
    /\ chapters = <<>> /\ start_chapter = 0 /\ max_chapters = <<>>
    /\ chapters_to_parse = <<>> /\ ci = 0 /\ all_sections = <<>> /\ outcomes = <<>>
    /\ toc_links = <<>> /\ df = None

SessionIdle == session = <<>> /\ earlier = <<>>

Init ==
    /\ pc = "loop"
    /\ all_elements \in Pages \cup ScenarioPages
    /\ idx = 0
    /\ \E h \in ChapterHeadings : state = ParserState(extract_chapter_title(h))
    /\ calls = <<>>
    /\ result = None
    /\ TitleIdle
    /\ CorpusIdle
    /\ SessionIdle

InLoop == pc = "loop" /\ idx < Len(all_elements)
Cur == all_elements[idx + 1]

\* the loop body takes the given branch for the current element
Takes(branch) == InLoop /\ Classify(state, Cur) = branch

\* the loop moves on to the next element
Advance(branch) ==
    /\ idx' = idx + 1
    /\ calls' = Append(calls, branch)
    /\ UNCHANGED <<pc, all_elements, result, titleVars, corpusVars, sessionVars>>

SkipEmpty ==
    /\ Takes("continue")
    /\ state' = state
    /\ Advance("continue")

ArticleNumber ==
    /\ Takes("process_article_number")
    /\ state' = process_article_number(state, Cur.text)
    /\ Advance("process_article_number")

ArticleTitlePart ==
    /\ Takes("process_article_title_part")
    /\ state' = process_article_title_part(state, Cur.text)
    /\ Advance("process_article_title_part")

SectionTitle ==
    /\ Takes("start_new_section")
    /\ state' = start_new_section(state, Cur.text)
    /\ Advance("start_new_section")

SectionText ==
    /\ Takes("add_section_content")
    /\ state' = add_section_content(state, Cur.text)
    /\ Advance("add_section_content")

StandaloneArticle ==
    /\ Takes("process_standalone_article")
    /\ state' = process_standalone_article(state, Cur.text)
    /\ Advance("process_standalone_article")

NoBranch ==
    /\ Takes("pass")
    /\ state' = state
    /\ Advance("pass")

\* after the loop: save the final section and return the records as dicts
Return ==
    /\ pc = "loop"
    /\ idx = Len(all_elements)
    /\ state' = save_current_section(state)
    /\ result' = get_records_as_dicts(state')
    /\ pc' = "done"
    /\ UNCHANGED <<all_elements, idx, calls, titleVars, corpusVars, sessionVars>>

Next ==
    \/ SkipEmpty
    \/ ArticleNumber
    \/ ArticleTitlePart
    \/ SectionTitle
    \/ SectionText
    \/ StandaloneArticle
    \/ NoBranch
    \/ Return

Spec == Init /\ [][Next]_vars

TypeOK ==
    /\ pc \in {"loop", "done"}
    /\ idx \in 0..Len(all_elements)
    /\ Len(calls) = idx
    /\ state.current_section \in 0..Len(state.heap)

-----------------------------------------------------------------------------
(* Properties of one run of parse_statute_html *)

Last(q) == q[Len(q)]

\* the StatuteSection objects in records, in list order
Records == [k \in 1..Len(state.records) |-> state.heap[state.records[k]]]

\* positions of the elements dispatched to start_new_section so far
TitlePositions == {j \in 1..idx : calls[j] = "start_new_section"}

\* the heap reference of the section opened by the element at position j
\* (sections are allocated in the order of their title elements)
SectionRef(j) == Cardinality({k \in 1..j : calls[k] = "start_new_section"})

\* position of the title element that opened the section with reference h
TitlePosition(h) == CHOOSE j \in TitlePositions : SectionRef(j) = h

\* no add_section_content reached the section opened at position j
NoBodyAfter(j) ==
    \A k \in (j + 1)..idx :
        calls[k] = "add_section_content" =>
            \E m \in (j + 1)..(k - 1) : calls[m] = "start_new_section"

\* the step consumed one element through the given branch
StepTakes(branch) == idx' = idx + 1 /\ Last(calls') = branch

ArticleBranches ==
    {"process_article_number", "process_article_title_part", "process_standalone_article"}

\* C1 as stated: a section opened by a SectionTitle element that gets no
\* SectionText before the next SectionTitle or the end of the stream produces
\* no record in the result.
C1_EmptySectionDiscarded ==
    pc = "done" =>
        \A j \in TitlePositions :
            NoBodyAfter(j) => \A k \in DOMAIN state.records : state.records[k] # SectionRef(j)

\* C1 amended: a section opened by a SectionTitle element that gets no
\* SectionText is still kept: it produces exactly one record, whose text is
\* the title line alone.
C1_TitleOnlySectionKept ==
    pc = "done" =>
        \A j \in TitlePositions :
            NoBodyAfter(j) =>
                /\ Cardinality({k \in DOMAIN state.records : state.records[k] = SectionRef(j)}) = 1
                /\ \A k \in DOMAIN state.records :
                       state.records[k] = SectionRef(j) => result[k].text = all_elements[j].text

C1_Witness ==
    /\ pc = "done"
    /\ \E j \in TitlePositions : NoBodyAfter(j) /\ j < idx
    /\ \E j \in TitlePositions : NoBodyAfter(j) /\ j = idx

\* C2: from every parser state, dispatching the article number line
\* "Article N." and then the title part "T" leaves the same current_article
\* and current_article_number as dispatching the fused element "Article N T".
C2_Ids == {<<"5">>, <<"7", "A">>}
C2_Titles == {T_Remedies, T_General_Provisions}

C2_SplitEqualsFused ==
    \A n \in C2_Ids, t \in C2_Titles :
        LET number_line == Element(W_Article \o SP \o n \o DOT, {CSS_article_title})
            title_part == Element(t, {CSS_article_title})
            fused_line == Element(W_Article \o SP \o n \o SP \o t, {CSS_article_title})
            split == Dispatch(Dispatch(state, number_line), title_part)
            fused == Dispatch(state, fused_line)
        IN  /\ split.current_article = fused.current_article
            /\ split.current_article_number = fused.current_article_number

\* C3: for a page made of the article number line "Article 1.", the title
\* part "General Provisions" and two sections of one title line and one body
\* line each, under the chapter title "Civil Procedure", the result is exactly
\* two records, in page order, with that chapter, article "General
\* Provisions", article_number "1", section numbers "1-1" and "1-2" and texts
\* title line + newline + body line.
C3_Record(section_number, title_line, body_line) ==
    [chapter |-> T_Civil_Procedure,
     article |-> T_General_Provisions,
     article_number |-> <<"1">>,
     section_number |-> section_number,
     text |-> title_line \o NL \o body_line]

C3_Scenario ==
    (pc = "done" /\ all_elements \in ScenarioPages /\ state.chapter_title = T_Civil_Procedure) =>
        result = << C3_Record(<<"1", "-", "1">>, all_elements[3].text, all_elements[4].text),
                    C3_Record(<<"1", "-", "2">>, all_elements[5].text, all_elements[6].text) >>

C3_Witness ==
    /\ pc = "done"
    /\ all_elements \in ScenarioPages
    /\ state.chapter_title = T_Civil_Procedure
    /\ Len(result) = 2

\* C4: the records are in the order of their SectionTitle elements (the k-th
\* record begins with the text of the k-th element dispatched to
\* start_new_section), and records only grows at its end: a step keeps every
\* entry already in it at its place.
C4_InPageOrder ==
    /\ Len(state.records) <= Cardinality(TitlePositions)
    /\ \A k \in DOMAIN state.records :
           startswith(Records[k].text, all_elements[TitlePosition(k)].text)
    /\ pc = "done" =>
           /\ Len(result) = Cardinality(TitlePositions)
           /\ \A k \in DOMAIN result :
                  startswith(result[k].text, all_elements[TitlePosition(k)].text)

C4_AppendOnly ==
    /\ Len(state'.records) >= Len(state.records)
    /\ SubSeq(state'.records, 1, Len(state.records)) = state.records

C4_OrderPreserved == [](C4_InPageOrder) /\ [][C4_AppendOnly]_vars

C4_Witness ==
    /\ pc = "done"
    /\ Len(result) = 3
    /\ result[1].text # result[2].text
    /\ result[2].text # result[3].text

\* C5: a step that dispatches a SectionTitle or SectionText element leaves
\* current_article and current_article_number unchanged, and the section a
\* SectionTitle step opens carries exactly that article title and number.
C5_Step ==
    (StepTakes("start_new_section") \/ StepTakes("add_section_content")) =>
        /\ state'.current_article = state.current_article
        /\ state'.current_article_number = state.current_article_number
        /\ StepTakes("start_new_section") =>
               /\ state'.heap[state'.current_section].article = state.current_article
               /\ state'.heap[state'.current_section].article_number = state.current_article_number

C5_ContextCarriedForward == [][C5_Step]_vars

\* an article was established (split form), a section was opened and given
\* body text, and a second section was opened under the same article
C5_Witness ==
    /\ idx >= 5
    /\ calls[idx - 4] = "process_article_number"
    /\ calls[idx - 3] = "process_article_title_part"
    /\ calls[idx - 2] = "start_new_section"
    /\ calls[idx - 1] = "add_section_content"
    /\ calls[idx] = "start_new_section"
    /\ state.heap[state.current_section].article = T_General_Provisions
    /\ state.heap[state.current_section].article_number = <<"1">>
    /\ Records[1].article = T_General_Provisions

\* C6: the article and article_number of a section object are fixed when
\* start_new_section creates it: no later step, in particular no article
\* transition, changes them, whether the section is still open or in records.
C6_Step ==
    /\ Len(state'.heap) >= Len(state.heap)
    /\ \A h \in DOMAIN state.heap :
           /\ state'.heap[h].article = state.heap[h].article
           /\ state'.heap[h].article_number = state.heap[h].article_number
    /\ \A h \in DOMAIN state'.heap \ DOMAIN state.heap :
           /\ StepTakes("start_new_section")
           /\ state'.heap[h].article = state.current_article
           /\ state'.heap[h].article_number = state.current_article_number

C6_ArticleSnapshot == [][C6_Step]_vars

\* a section was opened, then the article context changed, then the section
\* was finalized with the article it was opened under
C6_Witness ==
    /\ pc = "done"
    /\ \E k \in DOMAIN result :
           /\ result[k].article # state.current_article
           /\ result[k].article_number # state.current_article_number
    /\ \E j \in 2..idx : calls[j] = "process_standalone_article" /\ calls[j - 1] = "start_new_section"

\* the text holds no section sign, so no section citation
NoSectionSign(text) == \A k \in DOMAIN text : text[k] # SECT[1]

\* C8: a SectionTitle element whose text holds no section citation still
\* finalizes the previous section (a section with text goes to records) and
\* opens a new section whose section_number is None and whose text is the
\* title text; the loop goes on.
C8_Step ==
    (StepTakes("start_new_section") /\ NoSectionSign(Cur.text)) =>
        /\ state'.current_section = Len(state.heap) + 1
        /\ Len(state'.heap) = Len(state.heap) + 1
        /\ state'.heap[state'.current_section].section_number = None
        /\ state'.heap[state'.current_section].text = Cur.text
        /\ state.current_section # 0 =>
               state'.records = Append(state.records, state.current_section)
        /\ state.current_section = 0 => state'.records = state.records
        /\ pc' = "loop"

C8_MissingCitationTolerated == [][C8_Step]_vars

\* a title without citation came after an open section, and body text was
\* added to the section it opened
C8_Witness ==
    /\ idx >= 3
    /\ calls[idx - 2] = "start_new_section"
    /\ calls[idx - 1] = "start_new_section"
    /\ NoSectionSign(all_elements[idx - 1].text)
    /\ calls[idx] = "add_section_content"
    /\ state.heap[state.current_section].section_number = None
    /\ Len(state.records) = 1

\* C9: no step changes chapter_title, and every section in records, and the
\* open section, has chapter equal to chapter_title.
C9_ChapterOfSections ==
    /\ \A k \in DOMAIN state.records : Records[k].chapter = state.chapter_title
    /\ state.current_section # 0 => state.heap[state.current_section].chapter = state.chapter_title
    /\ pc = "done" => \A k \in DOMAIN result : result[k].chapter = state.chapter_title

C9_ChapterConstant ==
    [](C9_ChapterOfSections) /\ [][state'.chapter_title = state.chapter_title]_vars

C9_Witness ==
    /\ pc = "done"
    /\ Len(result) >= 2
    /\ state.chapter_title = T_Evidence
    /\ \E k \in DOMAIN result : result[k].article # <<>>

-----------------------------------------------------------------------------
(* Specification of the title extractors applied to one heading *)

ParseIdle ==
    /\ all_elements = <<>> /\ idx = 0 /\ state = ParserState(<<>>)
    /\ calls = <<>> /\ result = None

\* largest number of periods at the end of a heading
MaxDots == 2

RECURSIVE Dots(_)
Dots(n) == IF n = 0 THEN <<>> ELSE DOT \o Dots(n - 1)

\* "<keyword> <id>." heads, well-formed and not
HeadingHeads(kw) == {
    <<>>,
    kw \o SP \o <<"1", "A">> \o DOT \o SP,
    kw \o SP \o <<"1", "2">> \o DOT \o SP,
    lower(kw) \o SP \o SP \o <<"3", "b">> \o DOT,
    kw \o SP \o <<"5">> \o SP,
    kw \o SP \o <<"1", "A", "B">> \o DOT \o SP,
    kw \o <<"7">> \o DOT \o SP,
    SP \o kw \o SP \o <<"4">> \o DOT \o SP }

HeadingBodies == {T_Civil_Procedure, T_General_Provisions, <<>>}

HeadingTails == {Dots(n) : n \in 0..MaxDots} \cup {Dots(n) \o SP : n \in 1..MaxDots}
                \cup {DOT \o SP \o DOT}

Headings ==
    {h \o b \o t : h \in HeadingHeads(W_Chapter) \cup HeadingHeads(W_Article),
                   b \in HeadingBodies, t \in HeadingTails}

InitTitle ==
    /\ pc = "title"
    /\ full_title \in Headings
    /\ keyword \in {W_Chapter, W_Article}
    /\ cleaned = None
    /\ ParseIdle
    /\ CorpusIdle
    /\ SessionIdle

ExtractChapterTitle ==
    /\ pc = "title"
    /\ keyword = W_Chapter
    /\ cleaned' = extract_chapter_title(full_title)
    /\ pc' = "titled"
    /\ UNCHANGED <<full_title, keyword, parseVars, corpusVars, sessionVars>>

ExtractArticleTitle ==
    /\ pc = "title"
    /\ keyword = W_Article
    /\ cleaned' = extract_article_title(full_title)
    /\ pc' = "titled"
    /\ UNCHANGED <<full_title, keyword, parseVars, corpusVars, sessionVars>>

NextTitle == ExtractChapterTitle \/ ExtractArticleTitle

SpecTitle == InitTitle /\ [][NextTitle]_vars

-----------------------------------------------------------------------------
(* Properties of the title extractors *)

\* the first p characters of s are "<kw> <id>." and the whitespace after it:
\* the keyword in either case, whitespace, digits, at most one letter, a
\* period, whitespace
IsHeadingPrefix(kw, s, p) ==
    \E w \in 1..p, d \in 1..p, l \in {0, 1}, w2 \in 0..p :
        LET k == Len(kw) IN
        /\ k + w + d + l + 1 + w2 = p
        /\ p <= Len(s)
        /\ \A i \in 1..k : LowerChar(s[i]) = LowerChar(kw[i])
        /\ \A i \in (k + 1)..(k + w) : IsSpace(s[i])
        /\ \A i \in (k + w + 1)..(k + w + d) : IsDigit(s[i])
        /\ l = 1 => IsLetter(s[k + w + d + 1])
        /\ s[k + w + d + l + 1] = "."
        /\ \A i \in (k + w + d + l + 2)..p : IsSpace(s[i])

\* what is left of s once the heading prefix, if there is one, is taken away
AfterHeadingPrefix(kw, s) ==
    LET ps == {p \in 1..Len(s) : IsHeadingPrefix(kw, s, p)}
    IN  IF ps = {} THEN s
        ELSE SubSeq(s, (CHOOSE p \in ps : \A r \in ps : p >= r) + 1, Len(s))

\* r is core without the whitespace around it
IsTrimmed(r, core) ==
    /\ r = <<>> \/ (~IsSpace(r[1]) /\ ~IsSpace(r[Len(r)]))
    /\ \E a \in 0..Len(core) :
           /\ a + Len(r) <= Len(core)
           /\ SubSeq(core, a + 1, a + Len(r)) = r
           /\ \A i \in 1..a : IsSpace(core[i])
           /\ \A i \in (a + Len(r) + 1)..Len(core) : IsSpace(core[i])

\* "Chapter 1A. Civil Procedure." and "Article 12. General Provisions"
T_Chapter_1A_full == W_Chapter \o SP \o <<"1", "A">> \o DOT \o SP \o T_Civil_Procedure \o DOT
T_Article_12_full == W_Article \o SP \o <<"1", "2">> \o DOT \o SP \o T_General_Provisions

C10_Examples ==
    /\ (keyword = W_Chapter /\ full_title = T_Chapter_1A_full) => cleaned = T_Civil_Procedure
    /\ (keyword = W_Article /\ full_title = T_Article_12_full) => cleaned = T_General_Provisions

-----------------------------------------------------------------------------
(* get_chapter_links, parse_chapter, find_start_index, parse_all_chapters *)

DigitSeq == <<"0", "1", "2", "3", "4", "5", "6", "7", "8", "9">>

DigitValue(c) == (CHOOSE k \in DOMAIN DigitSeq : DigitSeq[k] = c) - 1

\* int(s) for a string of digits
RECURSIVE int(_)
int(s) == IF Len(s) = 0 THEN 0
          ELSE int(SubSeq(s, 1, Len(s) - 1)) * 10 + DigitValue(s[Len(s)])

\* str(n) for n >= 0
RECURSIVE str(_)
str(n) == IF n < 10 THEN <<DigitSeq[n + 1]>>
          ELSE str(n \div 10) \o <<DigitSeq[(n % 10) + 1]>>

\* int(re.search(r"(\d+)", c["chapter_num"]).group(1)): the sort key of a chapter
SortKey(chapter) ==
    LET num == chapter.chapter_num
        first == CHOOSE p \in 1..Len(num) :
                     IsDigit(num[p]) /\ \A r \in 1..(p - 1) : ~IsDigit(num[r])
    IN  int(SubSeq(num, first, first + RunLen(num, first, IsDigit) - 1))

\* list.sort(key=...) is stable: x goes behind the entries whose key is not larger
InsertByKey(sorted, x) ==
    LET n == Cardinality({k \in DOMAIN sorted : SortKey(sorted[k]) <= SortKey(x)})
    IN  SubSeq(sorted, 1, n) \o <<x>> \o SubSeq(sorted, n + 1, Len(sorted))

RECURSIVE SortChapters(_)
SortChapters(list) ==
    IF list = <<>> THEN <<>>
    ELSE InsertByKey(SortChapters(SubSeq(list, 1, Len(list) - 1)), list[Len(list)])

\* the dictionary get_chapter_links builds for a link to chapter chapter_num
ChapterLink(chapter_num) ==
    [url |-> <<"Chapter_">> \o chapter_num \o <<".html">>,
     chapter_num |-> chapter_num,
     title |-> W_Chapter \o SP \o chapter_num]

\* get_chapter_links when the table of contents page is fetched
get_chapter_links(links) == SortChapters([k \in DOMAIN links |-> ChapterLink(links[k])])

\* find_start_index: the 0-based index of the chapter, NoIndex for None
NoIndex == -1

find_start_index(chapter_list, start) ==
    LET found == {i \in 0..(Len(chapter_list) - 1) :
                      chapter_list[i + 1].chapter_num = str(start)}
    IN  IF found = {} THEN NoIndex
        ELSE CHOOSE i \in found : \A r \in found : i <= r

\* list[start:stop] for 0 <= start and 0 <= stop
py_slice(list, start, stop) ==
    SubSeq(list, start + 1, IF stop < Len(list) THEN stop ELSE Len(list))

\* what the site answers to the request for a chapter page: requests raises
\* a RequestException, the markup makes the HTML parser raise, or a page
RequestException == [kind |-> "RequestException"]
ParserError == [kind |-> "ParserError"]
Page(html) == [kind |-> "page", html |-> html]

\* section.update(...) in parse_chapter
WithChapterMetadata(section, chapter_info) ==
    [chapter |-> section.chapter, article_number |-> section.article_number,
     article |-> section.article, section_number |-> section.section_number,
     text |-> section.text,
     chapter_number |-> chapter_info.chapter_num,
     chapter_title |-> section.chapter,
     source_url |-> chapter_info.url]

\* variant of parse_chapter: only RequestException is caught
parse_chapter_uncaught(chapter_info, response) ==
    IF response.kind = "RequestException" THEN [raised |-> FALSE, sections |-> <<>>]
    ELSE IF response.kind = "ParserError" THEN [raised |-> TRUE, sections |-> <<>>]
    ELSE CHOOSE returned \in
             {[raised |-> FALSE,
               sections |-> [k \in DOMAIN sections |->
                                 WithChapterMetadata(sections[k], chapter_info)]] :
                  sections \in {parse_statute_html(response.html)}} : TRUE

\* parse_chapter: the list it returns, and whether an exception leaves it
parse_chapter(chapter_info, response) ==
    IF response.kind = "RequestException" THEN [raised |-> FALSE, sections |-> <<>>]
    ELSE IF response.kind = "ParserError" THEN [raised |-> FALSE, sections |-> <<>>]
    ELSE CHOOSE returned \in
             {[raised |-> FALSE,
               sections |-> [k \in DOMAIN sections |->
                                 WithChapterMetadata(sections[k], chapter_info)]] :
                  sections \in {parse_statute_html(response.html)}} : TRUE

\* the columns of the DataFrame
DataFrameRow(section) ==
    [chapter_number |-> section.chapter_number, chapter_title |-> section.chapter_title,
     article_number |-> section.article_number, article |-> section.article,
     section_number |-> section.section_number, text |-> section.text,
     source_url |-> section.source_url]

-----------------------------------------------------------------------------
(* Specification of one run of parse_all_chapters *)

\* the links of the table of contents page, in page order
SiteLinks == << <<"2">>, <<"1">>, <<"1", "A">>, <<"1", "0">>, <<"3">> >>

\* largest number of links on the table of contents page
MaxToc == 3

\* largest max_chapters argument
MaxMax == 2

\* largest start_chapter argument
MaxStart == 3

HtmlPage(title, elements) == [full_chapter_title |-> title, all_elements |-> elements]

SitePages == {
    HtmlPage(<<>>, <<>>),
    HtmlPage(T_Chapter_1,
             << Element(T_Article_5_dot, {CSS_article_title}),
                Element(T_Remedies, {CSS_article_title}),
                Element(T_S_1_1, {CSS_section_title}),
                Element(T_Body, {CSS_section_text[1]}) >>),
    HtmlPage(T_Chapter_8C,
             << Element(T_S_1_1, {CSS_section_title}),
                Element(T_Definitions, {CSS_section_title}) >>) }

Responses == {RequestException, ParserError} \cup {Page(html) : html \in SitePages}

InitCorpus ==
    /\ pc = "toc"
    /\ \E n \in 0..(IF MaxToc < Len(SiteLinks) THEN MaxToc ELSE Len(SiteLinks)) :
           toc_links = SubSeq(SiteLinks, 1, n)
    /\ start_chapter \in 1..MaxStart
    /\ max_chapters \in {<<>>} \cup {<<n>> : n \in 0..MaxMax}
    /\ chapters = <<>>
    /\ chapters_to_parse = <<>>
    /\ ci = 0
    /\ all_sections = <<>>
    /\ outcomes = <<>>
    /\ df = None
    /\ ParseIdle
    /\ TitleIdle
    /\ SessionIdle

\* chapters = get_chapter_links(): the table of contents is fetched and sorted
GetChapterLinks ==
    /\ pc = "toc"
    /\ chapters' = get_chapter_links(toc_links)
    /\ pc' = "find"
    /\ UNCHANGED <<start_chapter, max_chapters, chapters_to_parse, ci, all_sections,
                   outcomes, toc_links, df, parseVars, titleVars, sessionVars>>

\* chapters = get_chapter_links(): the request fails and [] is returned
GetChapterLinksFails ==
    /\ pc = "toc"
    /\ chapters' = <<>>
    /\ pc' = "find"
    /\ UNCHANGED <<start_chapter, max_chapters, chapters_to_parse, ci, all_sections,
                   outcomes, toc_links, df, parseVars, titleVars, sessionVars>>

\* start_index is None: an empty DataFrame is returned
StartNotFound ==
    /\ pc = "find"
    /\ find_start_index(chapters, start_chapter) = NoIndex
    /\ df' = <<>>
    /\ pc' = "returned"
    /\ UNCHANGED <<chapters, start_chapter, max_chapters, chapters_to_parse, ci,
                   all_sections, outcomes, toc_links, parseVars, titleVars, sessionVars>>

\* end_index and chapters_to_parse
SelectChapters ==
    /\ pc = "find"
    /\ find_start_index(chapters, start_chapter) # NoIndex
    /\ LET start_index == find_start_index(chapters, start_chapter)
           end_index == IF max_chapters # <<>> /\ max_chapters[1] # 0
                        THEN start_index + max_chapters[1]
                        ELSE Len(chapters)
       IN  chapters_to_parse' = py_slice(chapters, start_index, end_index)
    /\ pc' = "chapters"
    /\ UNCHANGED <<chapters, start_chapter, max_chapters, ci, all_sections, outcomes,
                   toc_links, df, parseVars, titleVars, sessionVars>>

\* one pass of the for loop: parse_chapter and all_sections.extend
ParseNextChapter ==
    /\ pc = "chapters"
    /\ ci < Len(chapters_to_parse)
    /\ \E response \in Responses :
           LET chapter == chapters_to_parse[ci + 1] IN
           \E returned \in {parse_chapter(chapter, response)} :
               /\ outcomes' = Append(outcomes, [chapter_num |-> chapter.chapter_num,
                                                response |-> response])
               /\ IF returned.raised
                  THEN pc' = "raised" /\ UNCHANGED <<ci, all_sections>>
                  ELSE /\ all_sections' = all_sections \o returned.sections
                       /\ ci' = ci + 1
                       /\ pc' = pc
    /\ UNCHANGED <<chapters, start_chapter, max_chapters, chapters_to_parse,
                   toc_links, df, parseVars, titleVars, sessionVars>>

\* return pd.DataFrame(all_sections, columns=[...])
ReturnDataFrame ==
    /\ pc = "chapters"
    /\ ci = Len(chapters_to_parse)
    /\ df' = [k \in DOMAIN all_sections |-> DataFrameRow(all_sections[k])]
    /\ pc' = "returned"
    /\ UNCHANGED <<chapters, start_chapter, max_chapters, chapters_to_parse, ci,
                   all_sections, outcomes, toc_links, parseVars, titleVars, sessionVars>>

NextCorpus ==
    \/ GetChapterLinks
    \/ GetChapterLinksFails
    \/ StartNotFound
    \/ SelectChapters
    \/ ParseNextChapter
    \/ ReturnDataFrame

SpecCorpus == InitCorpus /\ [][NextCorpus]_vars

-----------------------------------------------------------------------------
(* Properties of one run of parse_all_chapters *)

\* the rows of the DataFrame that belong to the chapter chapter_num, in order
RECURSIVE RowsOf(_, _)
RowsOf(rows, chapter_num) ==
    IF rows = <<>> THEN <<>>
    ELSE IF rows[1].chapter_number = chapter_num
         THEN <<rows[1]>> \o RowsOf(Tail(rows), chapter_num)
         ELSE RowsOf(Tail(rows), chapter_num)

\* position in chapters_to_parse of the chapter a row belongs to
ChapterPosition(row) ==
    CHOOSE k \in DOMAIN chapters_to_parse :
        chapters_to_parse[k].chapter_num = row.chapter_number

Failed(outcome) == outcome.response.kind \in {"RequestException", "ParserError"}

\* C7: no exception leaves parse_chapter; when the run returns, every chapter
\* of chapters_to_parse was handed to parse_chapter, a chapter whose fetch or
\* parse failed has no row, every other chapter has all the records of its
\* page, in page order, and the rows are in chapter order.
C7_FailureIsolated ==
    /\ pc # "raised"
    /\ (pc = "returned" /\ chapters_to_parse # <<>>) =>
           /\ Len(outcomes) = Len(chapters_to_parse)
           /\ \A k \in DOMAIN outcomes :
                  /\ outcomes[k].chapter_num = chapters_to_parse[k].chapter_num
                  /\ Failed(outcomes[k]) => RowsOf(df, outcomes[k].chapter_num) = <<>>
                  /\ ~Failed(outcomes[k]) =>
                         LET rows == RowsOf(df, outcomes[k].chapter_num)
                             records == parse_statute_html(outcomes[k].response.html)
                         IN  /\ Len(rows) = Len(records)
                             /\ \A i \in DOMAIN rows :
                                    /\ rows[i].text = records[i].text
                                    /\ rows[i].section_number = records[i].section_number
                                    /\ rows[i].article = records[i].article
                                    /\ rows[i].chapter_title = records[i].chapter
           /\ \A i, j \in DOMAIN df :
                  i < j => ChapterPosition(df[i]) <= ChapterPosition(df[j])

\* a chapter failed between two chapters that gave records, for each kind of failure
C7_Witness ==
    /\ pc = "returned"
    /\ Len(outcomes) = 3
    /\ ~Failed(outcomes[1]) /\ Failed(outcomes[2]) /\ ~Failed(outcomes[3])
    /\ outcomes[2].response.kind = "ParserError"
    /\ RowsOf(df, outcomes[1].chapter_num) # <<>>
    /\ RowsOf(df, outcomes[3].chapter_num) # <<>>

-----------------------------------------------------------------------------
(* Specification of several calls of parse_statute_html in one process *)

\* largest number of calls in one process
MaxParses == 3

SessionPages == {
    HtmlPage(T_Chapter_1,
             << Element(T_Article_5_dot, {CSS_article_title}),
                Element(T_Remedies, {CSS_article_title}),
                Element(T_S_1_1, {CSS_section_title}),
                Element(T_Body, {CSS_section_text[1]}) >>),
    HtmlPage(T_Chapter_8C,
             << Element(T_Remedies, {CSS_article_title}),
                Element(T_Article_5_Remedies, {CSS_article_title}),
                Element(<<>>, {CSS_section_text[2]}),
                Element(T_Definitions, {CSS_section_title}) >>),
    HtmlPage(T_Chapter_8C,
             << Element(T_Body, {CSS_section_text[2]}),
                Element(T_S_1_1, {CSS_section_title}) >>) }

\* the page of the running call
CurrentPage == session[Len(earlier) + 1]

InitSession ==
    /\ \E n \in 1..MaxParses : session \in [1..n -> SessionPages]
    /\ earlier = <<>>
    /\ pc = "loop"
    /\ all_elements = session[1].all_elements
    /\ idx = 0
    /\ state = ParserState(extract_chapter_title(session[1].full_chapter_title))
    /\ calls = <<>>
    /\ result = None
    /\ TitleIdle
    /\ CorpusIdle

\* variant of CallAgain: the ParserState of the call before is used again
CallAgain_reuse ==
    /\ pc = "done"
    /\ Len(earlier) + 1 < Len(session)
    /\ earlier' = Append(earlier, result)
    /\ all_elements' = session[Len(earlier) + 2].all_elements
    /\ state' = [state EXCEPT !.chapter_title =
                     extract_chapter_title(session[Len(earlier) + 2].full_chapter_title)]
    /\ idx' = 0
    /\ calls' = <<>>
    /\ result' = None
    /\ pc' = "loop"
    /\ UNCHANGED <<session, titleVars, corpusVars>>

\* the next call: the chapter title is extracted, a new ParserState is
\* constructed and the elements are selected
CallAgain ==
    /\ pc = "done"
    /\ Len(earlier) + 1 < Len(session)
    /\ earlier' = Append(earlier, result)
    /\ all_elements' = session[Len(earlier) + 2].all_elements
    /\ state' = ParserState(extract_chapter_title(session[Len(earlier) + 2].full_chapter_title))
    /\ idx' = 0
    /\ calls' = <<>>
    /\ result' = None
    /\ pc' = "loop"
    /\ UNCHANGED <<session, titleVars, corpusVars>>

NextSession ==
    \/ SkipEmpty
    \/ ArticleNumber
    \/ ArticleTitlePart
    \/ SectionTitle
    \/ SectionText
    \/ StandaloneArticle
    \/ NoBranch
    \/ Return
    \/ CallAgain

SpecSession == InitSession /\ [][NextSession]_vars

\* the return values of the calls so far, in call order
AllResults == IF pc = "done" THEN Append(earlier, result) ELSE earlier

\* C11: two calls of one process on the same page return the same ordered
\* list of records, whatever was parsed before or between them, and every
\* call starts with no records, no open section and no article context.
C11_SamePageSameRecords ==
    \A i, j \in DOMAIN AllResults : session[i] = session[j] => AllResults[i] = AllResults[j]

C11_FreshState ==
    earlier' # earlier =>
        /\ state'.records = <<>>
        /\ state'.heap = <<>>
        /\ state'.current_section = 0
        /\ state'.current_article = <<>>
        /\ state'.current_article_number = None
        /\ state'.pending_article_number = None

C11_ParsesIsolated == [](C11_SamePageSameRecords) /\ [][C11_FreshState]_vars

\* a page was parsed, then another page, then the first page again
C11_Witness ==
    /\ pc = "done"
    /\ Len(earlier) = 2
    /\ session[1] = session[3]
    /\ session[2] # session[1]
    /\ result # <<>>
    /\ earlier[1] = result
    /\ earlier[2] # result
    /\ earlier[2] # <<>>

\* C12 as stated: after save_current_section has run, current_section is
\* none in every case (here: after the save that ends the parse).
C12_ClearedAfterFinalize == pc = "done" => state.current_section = 0

\* C12 amended: save_current_section appends the open section to records when
\* its text is non-empty and leaves current_section as it is (the saved
\* section stays current until start_new_section replaces it); within a parse
\* no section is in records twice and no step changes a section that is
\* already in records.
C12_SaveStep ==
    (pc = "loop" /\ pc' = "done") =>
        /\ state'.current_section = state.current_section
        /\ state'.heap = state.heap
        /\ state'.records =
               IF state.current_section # 0 /\ state.heap[state.current_section].text # <<>>
               THEN Append(state.records, state.current_section)
               ELSE state.records

C12_NoDuplicate ==
    \A i, j \in DOMAIN state.records : i # j => state.records[i] # state.records[j]

C12_RecordsFrozen ==
    \A k \in DOMAIN state.records :
        state'.heap[state.records[k]] = state.heap[state.records[k]]

C12_SavedOnceNotCleared ==
    [](C12_NoDuplicate) /\ [][C12_SaveStep /\ C12_RecordsFrozen]_vars

\* the parse ended with a section open: it was saved by the final save and is
\* still the current section; an earlier section was saved by start_new_section
C12_Witness ==
    /\ pc = "done"
    /\ Len(state.records) >= 2
    /\ state.current_section # 0
    /\ Last(state.records) = state.current_section
    /\ \E k \in 1..idx : calls[k] = "add_section_content"

Transitions ==
    {"process_article_number", "process_article_title_part", "start_new_section",
     "add_section_content", "process_standalone_article"}

\* C13 as stated: every selected element with non-empty text causes exactly
\* one ParserState transition to be invoked.
C13_ExactlyOne ==
    \A j \in 1..idx : all_elements[j].text # <<>> => calls[j] \in Transitions

\* the element is of the article-title class only and is neither an article
\* number line, nor a standalone article, nor a title part with a number pending
MatchesNoBranch(self, element) ==
    /\ CSS_section_title \notin element.classes
    /\ \A k \in DOMAIN CSS_section_text : CSS_section_text[k] \notin element.classes
    /\ \/ /\ ~startswith(element.text, W_Article \o SP)
          /\ ~Truthy(self.pending_article_number) \/ startswith(element.text, SECT)
       \/ /\ startswith(element.text, W_Article \o SP)
          /\ endswith(element.text, DOT)
          /\ article_search(element.text) = None

\* C13 amended: every selected element with non-empty text causes at most one
\* ParserState transition: exactly one, except an element that matches no
\* branch of the chain, which causes none and leaves the state unchanged.
C13_Step ==
    (idx' = idx + 1 /\ all_elements[idx'].text # <<>>) =>
        /\ Len(calls') = Len(calls) + 1
        /\ Last(calls') \in Transitions \cup {"pass"}
        /\ Last(calls') = "pass" <=> MatchesNoBranch(state, all_elements[idx'])
        /\ Last(calls') = "pass" => state' = state

C13_AtMostOne == [](Len(calls) = idx) /\ [][C13_Step]_vars

\* the same title-part element caused no transition when no number was
\* pending and one transition after a number line
C13_Witness ==
    /\ idx >= 3
    /\ all_elements[idx - 2] = all_elements[idx]
    /\ calls[idx - 2] = "pass"
    /\ calls[idx - 1] = "process_article_number"
    /\ calls[idx] = "process_article_title_part"

\* the sections that are open: created and not yet in records
OpenSections ==
    {h \in DOMAIN state.heap : \A k \in DOMAIN state.records : state.records[k] # h}

\* C14: while the elements are processed at most one section is open, and it
\* is the current section; a SectionTitle step whose state has an open
\* section with non-empty text appends that section to records, once, and
\* makes a new section the current one.
C14_AtMostOneOpen ==
    pc = "loop" =>
        /\ Cardinality(OpenSections) <= 1
        /\ OpenSections = IF state.current_section = 0 THEN {} ELSE {state.current_section}

C14_Step ==
    (StepTakes("start_new_section") /\ state.current_section # 0
        /\ state.heap[state.current_section].text # <<>>) =>
        /\ state'.records = Append(state.records, state.current_section)
        /\ Cardinality({k \in DOMAIN state'.records :
                            state'.records[k] = state.current_section}) = 1
        /\ state'.current_section # state.current_section
        /\ state'.current_section = Len(state.heap) + 1
        /\ state'.heap[state.current_section] = state.heap[state.current_section]

C14_PreviousFinalizedFirst == [](C14_AtMostOneOpen) /\ [][C14_Step]_vars

\* a SectionTitle arrived while a section with body text was open
C14_Witness ==
    /\ pc = "loop"
    /\ idx >= 3
    /\ calls[idx - 2] = "start_new_section"
    /\ calls[idx - 1] = "add_section_content"
    /\ calls[idx] = "start_new_section"
    /\ state.records = <<state.current_section - 1>>

\* positions of the elements dispatched to an article transition so far
ArticlePositions == {j \in 1..idx : calls[j] \in ArticleBranches}

LastArticlePosition == CHOOSE j \in ArticlePositions : \A k \in ArticlePositions : k <= j

\* C15: pending_article_number is set exactly when the last article
\* transition so far was process_article_number, and then holds the text of
\* that number line; only that transition sets it, and
\* process_article_title_part and process_standalone_article leave it cleared.
C15_SetOnlyInWindow ==
    /\ Truthy(state.pending_article_number) <=>
           (ArticlePositions # {} /\ calls[LastArticlePosition] = "process_article_number")
    /\ Truthy(state.pending_article_number) =>
           state.pending_article_number = all_elements[LastArticlePosition].text

C15_Step ==
    /\ state'.pending_article_number # state.pending_article_number =>
           \E branch \in ArticleBranches : StepTakes(branch)
    /\ (state'.pending_article_number # state.pending_article_number
           /\ Truthy(state'.pending_article_number)) => StepTakes("process_article_number")
    /\ (StepTakes("process_article_title_part") \/ StepTakes("process_standalone_article")) =>
           state'.pending_article_number = None

C15_PendingLifecycle == [](C15_SetOnlyInWindow) /\ [][C15_Step]_vars

\* a number line was pending, a standalone article cleared it, and a second
\* number line set it again
C15_Witness ==
    /\ idx = 3
    /\ calls = <<"process_article_number", "process_standalone_article", "process_article_number">>
    /\ state.pending_article_number = all_elements[3].text
    /\ all_elements[3].text # all_elements[1].text

\* C16: a step that dispatches a SectionText element while no section is open
\* changes nothing in the ParserState (records, current_section,
\* current_article, current_article_number, pending_article_number, no section
\* object created), and the loop goes on with the next element.
C16_Step ==
    (StepTakes("add_section_content") /\ state.current_section = 0) =>
        /\ state'.records = state.records
        /\ state'.current_section = 0
        /\ state'.current_article = state.current_article
        /\ state'.current_article_number = state.current_article_number
        /\ state'.pending_article_number = state.pending_article_number
        /\ state'.heap = state.heap
        /\ pc' = "loop"

C16_Result ==
    (pc = "done" /\ \A j \in 1..idx : calls[j] # "start_new_section") => result = <<>>

C16_TextWithoutSectionDropped == [](C16_Result) /\ [][C16_Step]_vars

\* section text arrived before any section title, under an established
\* article, and the parse ended with no record
C16_Witness ==
    /\ pc = "done"
    /\ idx >= 2
    /\ calls[idx] = "add_section_content"
    /\ calls[idx - 1] \in ArticleBranches
    /\ state.heap = <<>>
    /\ result = <<>>

\* C17: a step that consumes an element of the article-title class whose text
\* starts neither with "Article " nor with the section sign, while no article
\* number is pending, does not dispatch it to process_article_title_part and
\* leaves current_article, current_article_number and pending_article_number
\* unchanged; the loop goes on.
C17_Step ==
    (/\ idx' = idx + 1
     /\ all_elements[idx'].text # <<>>
     /\ is_article_title_part(all_elements[idx'].classes, all_elements[idx'].text)
     /\ ~Truthy(state.pending_article_number)) =>
        /\ Last(calls') # "process_article_title_part"
        /\ state'.current_article = state.current_article
        /\ state'.current_article_number = state.current_article_number
        /\ state'.pending_article_number = state.pending_article_number
        /\ pc' = "loop"

C17_TitlePartNeedsPending == [][C17_Step]_vars

\* a title part arrived after a complete article, with nothing pending, and
\* the article context is still that of the complete article
C17_Witness ==
    /\ idx >= 2
    /\ calls[idx - 1] = "process_standalone_article"
    /\ calls[idx] = "pass"
    /\ is_article_title_part(all_elements[idx].classes, all_elements[idx].text)
    /\ state.current_article = extract_article_title(all_elements[idx - 1].text)
    /\ state.current_article_number = <<"5">>
    /\ state.pending_article_number = None

\* the title line at position j followed by the text of every element up to
\* position upto that was dispatched to add_section_content before the next
\* element dispatched to start_new_section, each after a newline
RECURSIVE Accumulated(_, _)
Accumulated(j, upto) ==
    IF upto <= j THEN all_elements[j].text
    ELSE IF /\ calls[upto] = "add_section_content"
            /\ \A m \in (j + 1)..(upto - 1) : calls[m] # "start_new_section"
         THEN Accumulated(j, upto - 1) \o NL \o all_elements[upto].text
         ELSE Accumulated(j, upto - 1)

\* C18: the text of every section, and of every record of the result, is its
\* SectionTitle line followed by every SectionText fragment dispatched while
\* it was the open section, in page order, joined by single newlines.
C18_TextAccumulated ==
    /\ \A h \in DOMAIN state.heap : state.heap[h].text = Accumulated(TitlePosition(h), idx)
    /\ pc = "done" =>
           \A k \in DOMAIN result :
               result[k].text = Accumulated(TitlePosition(state.records[k]), idx)

\* a record of three lines: a title line and two body lines
C18_Witness ==
    /\ pc = "done"
    /\ idx = 3
    /\ calls = <<"start_new_section", "add_section_content", "add_section_content">>
    /\ Len(result) = 1
    /\ result[1].text = all_elements[1].text \o NL \o all_elements[2].text
                            \o NL \o all_elements[3].text

\* position of the number line whose text was pending at position j
NumberLineBefore(j) ==
    CHOOSE n \in 1..(j - 1) :
        /\ calls[n] = "process_article_number"
        /\ \A m \in (n + 1)..(j - 1) : calls[m] # "process_article_number"

\* the (title, number) pairs of the articles the page has named so far: a
\* standalone article line gives both, a title part gives the title of the
\* article whose number line was pending
ArticlePairs ==
    {<<extract_article_title(all_elements[j].text), article_search(all_elements[j].text)>> :
         j \in {i \in 1..idx : calls[i] = "process_standalone_article"}}
    \cup
    {<<extract_article_title(strip(all_elements[NumberLineBefore(j)].text
                                       \o SP \o all_elements[j].text)),
       article_search(all_elements[NumberLineBefore(j)].text)>> :
         j \in {i \in 1..idx : calls[i] = "process_article_title_part"}}

\* C19: every record of the result that has an article title has the title
\* and the number of one and the same article of the page.
C19_ConsistentArticlePair ==
    pc = "done" =>
        \A k \in DOMAIN result :
            result[k].article # <<>> =>
                <<result[k].article, result[k].article_number>> \in ArticlePairs

\* C20: when the run returns and max_chapters was given, at most max_chapters
\* chapters were handed to parse_chapter (none for 0), and they are the
\* consecutive chapters of the sorted table of contents from start_chapter on;
\* when start_chapter is not in the table of contents, no chapter was handed
\* to parse_chapter and the DataFrame is empty.
C20_ChapterLimit ==
    pc = "returned" =>
        /\ (max_chapters # <<>> /\ find_start_index(chapters, start_chapter) # NoIndex) =>
               /\ Len(outcomes) <= max_chapters[1]
               /\ \A k \in DOMAIN outcomes :
                      outcomes[k].chapter_num =
                          chapters[find_start_index(chapters, start_chapter) + k].chapter_num
        /\ find_start_index(chapters, start_chapter) = NoIndex =>
               outcomes = <<>> /\ df = <<>>

====
